---- MODULE Spec2Model ----
(***************************************************************************)
(* A model of the file-browser HTTP server of src/src/main.rs: the accept  *)
(* loop, the per-connection task, the path decoder, the filesystem         *)
(* resolver, the three renderers and the response framer.                  *)
(*                                                                         *)
(* A Rust String is a sequence of Unicode code points (naturals); a byte   *)
(* buffer, an OsStr and a PathBuf are sequences of bytes (0..255).  The    *)
(* conversions between the two (UTF-8 encoding, lossy decoding, percent    *)
(* encoding and decoding, decimal formatting) are computed, never assumed. *)
(***************************************************************************)
EXTENDS Integers, Sequences, FiniteSets, TLC

(***************************************************************************)
(* Strings and bytes                                                       *)
(***************************************************************************)

\* U+FFFD, what String::from_utf8_lossy / decode_utf8_lossy / to_string_lossy
\* put in place of an invalid byte sequence.
REPLACEMENT_CHARACTER == 65533

\* The UTF-8 encoding of one code point (how a String stores a char).
Utf8(cp) ==
  IF cp < 128 THEN << cp >>
  ELSE IF cp < 2048 THEN << 192 + (cp \div 64), 128 + (cp % 64) >>
  ELSE IF cp < 65536 THEN
    << 224 + (cp \div 4096), 128 + ((cp \div 64) % 64), 128 + (cp % 64) >>
  ELSE << 240 + (cp \div 262144), 128 + ((cp \div 4096) % 64),
          128 + ((cp \div 64) % 64), 128 + (cp % 64) >>

RECURSIVE as_bytes(_)
\* str::as_bytes: the encoded bytes of a String (the encodings of its chars,
\* concatenated; computed by halves to keep the evaluation shallow).
as_bytes(s) ==
  IF s = << >> THEN << >>
  ELSE IF Len(s) = 1 THEN Utf8(s[1])
  ELSE LET h == Len(s) \div 2
       IN  as_bytes(SubSeq(s, 1, h)) \o as_bytes(SubSeq(s, h + 1, Len(s)))

\* The length in chars (chars().count()) instead of bytes.
str_len_chars(s) == Len(s)

\* String::len / str::len: the length in encoded bytes.
str_len(s) == Len(as_bytes(s))

\* A continuation byte within [lo, hi] at position i of b.
ContIn(b, i, lo, hi) == i <= Len(b) /\ b[i] >= lo /\ b[i] <= hi

\* One step of the lossy UTF-8 decoder at position i of b: the code point and
\* the number of bytes consumed.  An invalid sequence yields U+FFFD and
\* consumes its maximal valid prefix (at least one byte).
DecodeAt(b, i) ==
  LET b0 == b[i]
      bad(n) == [cp |-> REPLACEMENT_CHARACTER, n |-> n]
      c(j) == b[i + j] - 128
  IN  IF b0 < 128 THEN [cp |-> b0, n |-> 1]
      ELSE IF b0 >= 194 /\ b0 <= 223 THEN
        IF ContIn(b, i + 1, 128, 191)
        THEN [cp |-> (b0 - 192) * 64 + c(1), n |-> 2]
        ELSE bad(1)
      ELSE IF b0 >= 224 /\ b0 <= 239 THEN
        LET lo == IF b0 = 224 THEN 160 ELSE 128
            hi == IF b0 = 237 THEN 159 ELSE 191
        IN  IF ~ContIn(b, i + 1, lo, hi) THEN bad(1)
            ELSE IF ~ContIn(b, i + 2, 128, 191) THEN bad(2)
            ELSE [cp |-> (b0 - 224) * 4096 + c(1) * 64 + c(2), n |-> 3]
      ELSE IF b0 >= 240 /\ b0 <= 244 THEN
        LET lo == IF b0 = 240 THEN 144 ELSE 128
            hi == IF b0 = 244 THEN 143 ELSE 191
        IN  IF ~ContIn(b, i + 1, lo, hi) THEN bad(1)
            ELSE IF ~ContIn(b, i + 2, 128, 191) THEN bad(2)
            ELSE IF ~ContIn(b, i + 3, 128, 191) THEN bad(3)
            ELSE [cp |-> (b0 - 240) * 262144 + c(1) * 4096 + c(2) * 64 + c(3),
                  n |-> 4]
      ELSE bad(1)

RECURSIVE DecodeFrom(_, _)
DecodeFrom(b, i) ==
  IF i > Len(b) THEN << >>
  ELSE LET d == DecodeAt(b, i) IN << d.cp >> \o DecodeFrom(b, i + d.n)

\* String::from_utf8_lossy, PercentDecode::decode_utf8_lossy and
\* OsStr::to_string_lossy: bytes to a String, invalid sequences replaced.
from_utf8_lossy(b) == DecodeFrom(b, 1)

RECURSIVE Digits(_)
\* Display for usize / u64: the decimal digits of n.
Digits(n) == IF n < 10 THEN << 48 + n >> ELSE Digits(n \div 10) \o << 48 + (n % 10) >>

\* Is s a prefix of t at position i (1-based)?
MatchAt(t, i, s) == i + Len(s) - 1 <= Len(t) /\ SubSeq(t, i, i + Len(s) - 1) = s

\* The positions of t at which s occurs.
Occurrences(t, s) == { i \in 1..Len(t) : MatchAt(t, i, s) }

\* The first position >= i at which t holds x, or Len(t) + 1.
RECURSIVE IndexFrom(_, _, _)
IndexFrom(t, i, x) ==
  IF i > Len(t) \/ t[i] = x THEN i ELSE IndexFrom(t, i + 1, x)

\* Lexicographic comparison of two sequences of naturals: -1, 0 or 1.
RECURSIVE SeqCmp(_, _)
SeqCmp(a, b) ==
  IF a = << >> THEN (IF b = << >> THEN 0 ELSE -1)
  ELSE IF b = << >> THEN 1
  ELSE IF Head(a) < Head(b) THEN -1
  ELSE IF Head(a) > Head(b) THEN 1
  ELSE SeqCmp(Tail(a), Tail(b))

\* Ord for String: byte-wise comparison of the encodings.
str_cmp(a, b) == SeqCmp(as_bytes(a), as_bytes(b))

(***************************************************************************)
(* Request line parsing (extract_path, lines 39-50)                        *)
(***************************************************************************)

\* char::is_whitespace, the White_Space code points split_whitespace cuts at.
is_whitespace(cp) ==
  \/ cp >= 9 /\ cp <= 13
  \/ cp \in {32, 133, 160, 5760, 8232, 8233, 8239, 8287, 12288}
  \/ cp >= 8192 /\ cp <= 8202

\* request.lines().next(): << the first line >> (cut at the first "\n", one
\* "\r" before it dropped), or << >> when the text is empty.
lines_next(s) ==
  IF s = << >> THEN << >>
  ELSE LET nl == IndexFrom(s, 1, 10)
           line == SubSeq(s, 1, nl - 1)
       IN  IF nl <= Len(s) /\ line # << >> /\ line[Len(line)] = 13
           THEN << SubSeq(line, 1, Len(line) - 1) >>
           ELSE << line >>

RECURSIVE SkipWs(_, _)
\* The first position >= i of s that is not whitespace, or Len(s) + 1.
SkipWs(s, i) ==
  IF i > Len(s) \/ ~is_whitespace(s[i]) THEN i ELSE SkipWs(s, i + 1)

RECURSIVE SkipWord(_, _)
\* The first position >= i of s that is whitespace, or Len(s) + 1.
SkipWord(s, i) ==
  IF i > Len(s) \/ is_whitespace(s[i]) THEN i ELSE SkipWord(s, i + 1)

\* line.split_whitespace().nth(1): << the second token >>, or << >>.
split_whitespace_nth1(line) ==
  LET a1 == SkipWs(line, 1)
      e1 == SkipWord(line, a1)
      a2 == SkipWs(line, e1)
      e2 == SkipWord(line, a2)
  IN  IF a1 > Len(line) \/ a2 > Len(line) THEN << >>
      ELSE << SubSeq(line, a2, e2 - 1) >>

\* The target of the request line, with unwrap_or("/") (lines 40-43).
request_target(request) ==
  LET l == lines_next(request)
      t == IF l = << >> THEN << >> ELSE split_whitespace_nth1(l[1])
  IN  IF t = << >> THEN << 47 >> ELSE t[1]

\* Is byte h an ASCII hex digit, and its value.
IsHex(h) == (h >= 48 /\ h <= 57) \/ (h >= 65 /\ h <= 70) \/ (h >= 97 /\ h <= 102)
HexVal(h) == IF h <= 57 THEN h - 48 ELSE IF h <= 70 THEN h - 55 ELSE h - 87

RECURSIVE PercentDecodeFrom(_, _)
PercentDecodeFrom(b, i) ==
  IF i > Len(b) THEN << >>
  ELSE IF b[i] = 37 /\ i + 2 <= Len(b) /\ IsHex(b[i + 1]) /\ IsHex(b[i + 2])
       THEN << 16 * HexVal(b[i + 1]) + HexVal(b[i + 2]) >> \o PercentDecodeFrom(b, i + 3)
       ELSE << b[i] >> \o PercentDecodeFrom(b, i + 1)

\* percent_decode_str(s): the bytes of s with every %XY replaced by its byte.
percent_decode_str(s) == PercentDecodeFrom(as_bytes(s), 1)

\* The upper-case hex digit of a nibble.
HexDigit(n) == IF n < 10 THEN 48 + n ELSE 55 + n

\* Is byte b an ASCII letter or digit (what NON_ALPHANUMERIC leaves alone)?
IsAlnum(b) == (b >= 48 /\ b <= 57) \/ (b >= 65 /\ b <= 90) \/ (b >= 97 /\ b <= 122)

RECURSIVE percent_encode(_)
\* percent_encode(bytes, NON_ALPHANUMERIC).to_string()
percent_encode(b) ==
  IF b = << >> THEN << >>
  ELSE (IF IsAlnum(Head(b)) THEN << Head(b) >>
        ELSE << 37, HexDigit(Head(b) \div 16), HexDigit(Head(b) % 16) >>)
       \o percent_encode(Tail(b))

(***************************************************************************)
(* std::path on Unix: a path is its bytes, "/" (47) the separator          *)
(***************************************************************************)

\* Path::has_root / is_absolute.
has_root(p) == p # << >> /\ p[1] = 47

\* Path::join (PathBuf::push): an absolute argument replaces the base.
path_join(base, p) ==
  IF has_root(p) THEN p
  ELSE IF base = << >> \/ base[Len(base)] = 47 THEN base \o p
  ELSE base \o << 47 >> \o p

\* A component Components skips: empty (between separators) or ".".
Skipped(comp) == comp = << >> \/ comp = << 46 >>

RECURSIVE TrimLeft(_)
\* Components::trim_left: drop leading separators and "." components.
TrimLeft(b) ==
  IF b = << >> THEN b
  ELSE LET e == IndexFrom(b, 1, 47)
       IN  IF Skipped(SubSeq(b, 1, e - 1)) THEN TrimLeft(SubSeq(b, e + 1, Len(b)))
           ELSE b

\* The position of the last separator of b, or 0.
RECURSIVE LastSep(_, _)
LastSep(b, i) == IF i = 0 \/ b[i] = 47 THEN i ELSE LastSep(b, i - 1)

RECURSIVE TrimRight(_)
\* Components::trim_right: drop trailing separators and "." components.
TrimRight(b) ==
  IF b = << >> THEN b
  ELSE LET k == LastSep(b, Len(b))
       IN  IF Skipped(SubSeq(b, k + 1, Len(b))) THEN TrimRight(SubSeq(b, 1, k - 1))
           ELSE b

\* Path::strip_prefix("/"): << the rest >> of a rooted path, as
\* Components::as_path leaves it; << >> (Err) for a path without root.
strip_prefix_root(p) ==
  IF has_root(p) THEN << TrimRight(TrimLeft(Tail(p))) >> ELSE << >>

\* Path::parent of a rooted path "/" \o body whose body is trimmed:
\* << the parent >>, or << >> (None) for "/" itself.
path_parent(p) ==
  LET body == TrimRight(TrimLeft(Tail(p)))
      k == LastSep(body, Len(body))
  IN  IF body = << >> THEN << >>
      ELSE << << 47 >> \o TrimRight(SubSeq(body, 1, k - 1)) >>

\* Path::file_name: << the last component >> when it is a normal one.
path_file_name(p) ==
  LET body == TrimRight(TrimLeft(Tail(p)))
      k == LastSep(body, Len(body))
      last == SubSeq(body, k + 1, Len(body))
  IN  IF body = << >> \/ last = << 46, 46 >> THEN << >> ELSE << last >>

\* extract_path (lines 39-50).  &path[1..] panics unless byte 1 is a char
\* boundary, that is unless the first char of the target is one byte long.
extract_path(request) ==
  LET path == request_target(request)
  IN  IF Len(Utf8(path[1])) > 1 THEN [panic |-> TRUE, path |-> << >>]
      ELSE LET decoded_path == from_utf8_lossy(percent_decode_str(Tail(path)))
           IN  [panic |-> FALSE,
                path |-> path_join(<< 47 >>, as_bytes(decoded_path))]

\* Path::new("/") of generate_response (line 53).
root_path == << 47 >>

\* The stripped path used as it is, the join with the root forgotten.
full_path_unanchored(requested_path) ==
  LET rel == strip_prefix_root(requested_path)
  IN  IF rel = << >> THEN requested_path ELSE rel[1]

\* full_path of generate_response (line 54).
full_path_of(requested_path) ==
  LET rel == strip_prefix_root(requested_path)
  IN  path_join(root_path, IF rel = << >> THEN requested_path ELSE rel[1])

(***************************************************************************)
(* The filesystem the server reads.  A node is named by the sequence of    *)
(* its components from "/"; a component is a sequence of bytes.  fs maps   *)
(* each node to [is_dir, len, mtime].                                      *)
(***************************************************************************)

\* The children of directory node d in filesystem f (their names).
ChildNames(f, d) ==
  { q[Len(q)] : q \in { r \in DOMAIN f : Len(r) = Len(d) + 1
                                         /\ SubSeq(r, 1, Len(d)) = d } }

RECURSIVE SplitPath(_)
\* The components of a path, empty ones included.
SplitPath(b) ==
  LET e == IndexFrom(b, 1, 47)
  IN  IF e > Len(b) THEN << b >>
      ELSE << SubSeq(b, 1, e - 1) >> \o SplitPath(SubSeq(b, e + 1, Len(b)))

RECURSIVE Walk(_, _, _)
\* Path resolution by the kernel from node cur: "" and "." stay, ".." goes
\* up (the parent of "/" is "/"), a name goes down; every step needs cur to
\* be a directory.  << node >>, or << >> (ENOENT / ENOTDIR).
Walk(f, cur, comps) ==
  IF comps = << >> THEN << cur >>
  ELSE IF ~f[cur].is_dir THEN << >>
  ELSE LET c == Head(comps)
       IN  IF Skipped(c) THEN Walk(f, cur, Tail(comps))
           ELSE IF c = << 46, 46 >>
             THEN Walk(f, IF cur = << >> THEN cur ELSE SubSeq(cur, 1, Len(cur) - 1),
                       Tail(comps))
           ELSE IF Append(cur, c) \in DOMAIN f THEN Walk(f, Append(cur, c), Tail(comps))
           ELSE << >>

\* The node a rooted path names in f: << node >> or << >>.  A path holding
\* a NUL byte names nothing (the call fails with InvalidInput).
Lookup(f, p) ==
  IF \E i \in 1..Len(p) : p[i] = 0 THEN << >> ELSE Walk(f, << >>, SplitPath(p))

(***************************************************************************)
(* Formatting of sizes and times                                           *)
(***************************************************************************)

\* Two decimal digits, zero padded.
Pad2(n) == << 48 + (n \div 10), 48 + (n % 10) >>

\* humansize::format_size(len, BINARY) for len below 1 MiB: "n B" below
\* 1024, else KiB with two decimals, none when the fraction is below 0.01.
format_size(len) ==
  IF len < 1024 THEN Digits(len) \o << 32, 66 >>
  ELSE LET whole == len \div 1024
           frac == ((len % 1024) * 100) \div 1024
       IN  Digits(whole)
           \o (IF frac = 0 THEN << >> ELSE << 46 >> \o Pad2(frac))
           \o << 32, 75, 105, 66 >>

\* modified.format("%Y-%m-%d %H:%M:%S") of a local time [y, mo, d, h, mi, s].
format_time(t) ==
  Digits(t.y) \o << 45 >> \o Pad2(t.mo) \o << 45 >> \o Pad2(t.d) \o << 32 >>
  \o Pad2(t.h) \o << 58 >> \o Pad2(t.mi) \o << 58 >> \o Pad2(t.s)

(***************************************************************************)
(* The documents.  The literals are the format strings of the source with  *)
(* the indentation and the static <style> blocks left out.                 *)
(***************************************************************************)

\* HTTP/1.1 200 OK\r\n
STATUS_LINE ==
  << 72, 84, 84, 80, 47, 49, 46, 49, 32, 50, 48, 48, 32, 79, 75, 13, 10 >>

\* Content-Type: text/html; charset=utf-8\r\n
CONTENT_TYPE ==
  << 67, 111, 110, 116, 101, 110, 116, 45, 84, 121, 112, 101, 58, 32, 116, 101, 120, 116, 47,
     104, 116, 109, 108, 59, 32, 99, 104, 97, 114, 115, 101, 116, 61, 117, 116, 102, 45, 56,
     13, 10 >>

\* Content-Length: 
CONTENT_LENGTH ==
  << 67, 111, 110, 116, 101, 110, 116, 45, 76, 101, 110, 103, 116, 104, 58, 32 >>

\* \r\n
CRLF ==
  << 13, 10 >>

\* <!DOCTYPE html><html><head><title>File Browser - 
LIST_HEAD ==
  << 60, 33, 68, 79, 67, 84, 89, 80, 69, 32, 104, 116, 109, 108, 62, 60, 104, 116, 109, 108,
     62, 60, 104, 101, 97, 100, 62, 60, 116, 105, 116, 108, 101, 62, 70, 105, 108, 101, 32,
     66, 114, 111, 119, 115, 101, 114, 32, 45, 32 >>

\* </title></head><body><h1>File Browser</h1><div><a href="/">Root</a> / 
LIST_CRUMB ==
  << 60, 47, 116, 105, 116, 108, 101, 62, 60, 47, 104, 101, 97, 100, 62, 60, 98, 111, 100,
     121, 62, 60, 104, 49, 62, 70, 105, 108, 101, 32, 66, 114, 111, 119, 115, 101, 114, 60,
     47, 104, 49, 62, 60, 100, 105, 118, 62, 60, 97, 32, 104, 114, 101, 102, 61, 34, 47, 34,
     62, 82, 111, 111, 116, 60, 47, 97, 62, 32, 47, 32 >>

\* </div><table><tbody>
LIST_TABLE ==
  << 60, 47, 100, 105, 118, 62, 60, 116, 97, 98, 108, 101, 62, 60, 116, 98, 111, 100, 121, 62 >>

\* </tbody></table></body></html>
LIST_TAIL ==
  << 60, 47, 116, 98, 111, 100, 121, 62, 60, 47, 116, 97, 98, 108, 101, 62, 60, 47, 98, 111,
     100, 121, 62, 60, 47, 104, 116, 109, 108, 62 >>

\* <tr><td><a href="
PARENT_OPEN ==
  << 60, 116, 114, 62, 60, 116, 100, 62, 60, 97, 32, 104, 114, 101, 102, 61, 34 >>

\* ">U+1F4C1 ..</a></td><td>-</td><td>-</td></tr>
PARENT_CLOSE ==
  << 34, 62, 128193, 32, 46, 46, 60, 47, 97, 62, 60, 47, 116, 100, 62, 60, 116, 100, 62, 45,
     60, 47, 116, 100, 62, 60, 116, 100, 62, 45, 60, 47, 116, 100, 62, 60, 47, 116, 114, 62 >>

\* <tr><td><a href="
ROW_OPEN ==
  << 60, 116, 114, 62, 60, 116, 100, 62, 60, 97, 32, 104, 114, 101, 102, 61, 34 >>

\* ">
ROW_HREF_END ==
  << 34, 62 >>

\* </a></td><td>
ROW_NAME_END ==
  << 60, 47, 97, 62, 60, 47, 116, 100, 62, 60, 116, 100, 62 >>

\* </td><td>
ROW_CELL ==
  << 60, 47, 116, 100, 62, 60, 116, 100, 62 >>

\* </td></tr>
ROW_CLOSE ==
  << 60, 47, 116, 100, 62, 60, 47, 116, 114, 62 >>

\* U+1F4C1
DIR_GLYPH ==
  << 128193 >>

\* U+1F4C4
FILE_GLYPH ==
  << 128196 >>

\* <!DOCTYPE html><html><head><title>File Info - 
INFO_HEAD ==
  << 60, 33, 68, 79, 67, 84, 89, 80, 69, 32, 104, 116, 109, 108, 62, 60, 104, 116, 109, 108,
     62, 60, 104, 101, 97, 100, 62, 60, 116, 105, 116, 108, 101, 62, 70, 105, 108, 101, 32,
     73, 110, 102, 111, 32, 45, 32 >>

\* </title></head><body><a href="javascript:history.back()">U+2190 Back</a><h2>U+1F4C4 
INFO_BACK ==
  << 60, 47, 116, 105, 116, 108, 101, 62, 60, 47, 104, 101, 97, 100, 62, 60, 98, 111, 100,
     121, 62, 60, 97, 32, 104, 114, 101, 102, 61, 34, 106, 97, 118, 97, 115, 99, 114, 105,
     112, 116, 58, 104, 105, 115, 116, 111, 114, 121, 46, 98, 97, 99, 107, 40, 41, 34, 62,
     8592, 32, 66, 97, 99, 107, 60, 47, 97, 62, 60, 104, 50, 62, 128196, 32 >>

\* </h2><p>Size: 
INFO_SIZE ==
  << 60, 47, 104, 50, 62, 60, 112, 62, 83, 105, 122, 101, 58, 32 >>

\* </p><p>Modified: 
INFO_MODIFIED ==
  << 60, 47, 112, 62, 60, 112, 62, 77, 111, 100, 105, 102, 105, 101, 100, 58, 32 >>

\* </p></body></html>
INFO_TAIL ==
  << 60, 47, 112, 62, 60, 47, 98, 111, 100, 121, 62, 60, 47, 104, 116, 109, 108, 62 >>

\* <!DOCTYPE html><html><head><title>Error - Path Not Found</title></head><body><h1 class="error">404 - Path Not Found</h1><p>The requested path could not be found.</p><a href="/">Return to Home</a></body></html>
ERROR_PAGE ==
  << 60, 33, 68, 79, 67, 84, 89, 80, 69, 32, 104, 116, 109, 108, 62, 60, 104, 116, 109, 108,
     62, 60, 104, 101, 97, 100, 62, 60, 116, 105, 116, 108, 101, 62, 69, 114, 114, 111, 114,
     32, 45, 32, 80, 97, 116, 104, 32, 78, 111, 116, 32, 70, 111, 117, 110, 100, 60, 47, 116,
     105, 116, 108, 101, 62, 60, 47, 104, 101, 97, 100, 62, 60, 98, 111, 100, 121, 62, 60,
     104, 49, 32, 99, 108, 97, 115, 115, 61, 34, 101, 114, 114, 111, 114, 34, 62, 52, 48, 52,
     32, 45, 32, 80, 97, 116, 104, 32, 78, 111, 116, 32, 70, 111, 117, 110, 100, 60, 47, 104,
     49, 62, 60, 112, 62, 84, 104, 101, 32, 114, 101, 113, 117, 101, 115, 116, 101, 100, 32,
     112, 97, 116, 104, 32, 99, 111, 117, 108, 100, 32, 110, 111, 116, 32, 98, 101, 32, 102,
     111, 117, 110, 100, 46, 60, 47, 112, 62, 60, 97, 32, 104, 114, 101, 102, 61, 34, 47, 34,
     62, 82, 101, 116, 117, 114, 110, 32, 116, 111, 32, 72, 111, 109, 101, 60, 47, 97, 62, 60,
     47, 98, 111, 100, 121, 62, 60, 47, 104, 116, 109, 108, 62 >>


\* generate_error_page (lines 206-224).
generate_error_page == ERROR_PAGE

\* generate_file_info's document (lines 171-203) for a file at path whose
\* metadata gives len and a readable modification time mtime.
file_info_html(path, len, mtime) ==
  LET fname == path_file_name(path)
      file_name == IF fname = << >> THEN << >> ELSE from_utf8_lossy(fname[1])
  IN  INFO_HEAD \o file_name \o INFO_BACK \o file_name \o INFO_SIZE
      \o format_size(len) \o INFO_MODIFIED \o format_time(mtime) \o INFO_TAIL

\* The tuple pushed for a directory entry (lines 84-88):
\* << name, is_dir, size, modified >>.
entry_tuple(raw_name, node) ==
  << from_utf8_lossy(raw_name), node.is_dir, format_size(node.len),
     format_time(node.mtime) >>

\* The comparator of entries.sort_by (lines 92-98): -1 Less, 0 Equal, 1 Greater.
entry_cmp(a, b) ==
  IF a[2] = b[2] THEN str_cmp(a[1], b[1])
  ELSE IF b[2] THEN 1 ELSE -1

RECURSIVE InsertSorted(_, _)
\* x placed after every element not greater than it (a stable insertion).
InsertSorted(sorted, x) ==
  IF sorted = << >> THEN << x >>
  ELSE IF entry_cmp(x, Head(sorted)) < 0 THEN << x >> \o sorted
  ELSE << Head(sorted) >> \o InsertSorted(Tail(sorted), x)

RECURSIVE sort_by(_)
\* slice::sort_by with entry_cmp: the stable sort of the entries.
sort_by(entries) ==
  IF entries = << >> THEN << >>
  ELSE InsertSorted(sort_by(SubSeq(entries, 1, Len(entries) - 1)),
                    entries[Len(entries)])

\* The link target of an entry (line 153).
encoded_path(current_path, name) ==
  percent_encode(as_bytes(current_path \o << 47 >> \o name))

\* One entry row (lines 154-165).
entry_row(current_path, e) ==
  ROW_OPEN \o encoded_path(current_path, e[1]) \o ROW_HREF_END
  \o (IF e[2] THEN DIR_GLYPH ELSE FILE_GLYPH) \o << 32 >> \o e[1] \o ROW_NAME_END
  \o (IF e[2] THEN << 45 >> ELSE e[3]) \o ROW_CELL \o e[4] \o ROW_CLOSE

RECURSIVE join_rows(_, _)
\* .collect::<Vec<_>>().join("\n") of the entry rows (line 166).
join_rows(current_path, es) ==
  IF es = << >> THEN << >>
  ELSE entry_row(current_path, Head(es))
       \o (IF Len(es) > 1 THEN << 10 >> ELSE << >>)
       \o join_rows(current_path, Tail(es))

\* The parent-navigation row (lines 147-151).
parent_row(path) ==
  LET parent == path_parent(path)
      parent_path == IF parent = << >> THEN << >> ELSE from_utf8_lossy(parent[1])
  IN  IF path # << >> THEN PARENT_OPEN \o parent_path \o PARENT_CLOSE ELSE << >>

\* The listing document (lines 100-167) of the sorted entries of path.
listing_html(path, sorted) ==
  LET current_path == from_utf8_lossy(path)
  IN  LIST_HEAD \o current_path \o LIST_CRUMB \o current_path \o LIST_TABLE
      \o parent_row(path) \o << 10 >> \o join_rows(current_path, sorted) \o LIST_TAIL

\* The framing with the status line following the document: 404 for the
\* not-found document.
frame_with_404(html_content) ==
  (IF html_content = generate_error_page
   THEN << 72, 84, 84, 80, 47, 49, 46, 49, 32, 52, 48, 52, 32, 78, 111, 116, 32, 70,
           111, 117, 110, 100, 13, 10 >>
   ELSE STATUS_LINE)
  \o CONTENT_TYPE \o CONTENT_LENGTH \o Digits(str_len(html_content))
  \o CRLF \o CRLF \o html_content

\* The framing of generate_response (lines 67-75).
frame(html_content) ==
  STATUS_LINE \o CONTENT_TYPE \o CONTENT_LENGTH \o Digits(str_len(html_content))
  \o CRLF \o CRLF \o html_content

(***************************************************************************)
(* Inputs: what the peers send, and the filesystems served                 *)
(***************************************************************************)

\* GET / HTTP/1.1\r\n\r\n
REQ_ROOT == << 71, 69, 84, 32, 47, 32, 72, 84, 84, 80, 47, 49, 46, 49, 13, 10, 13, 10 >>

\* GET /d HTTP/1.1\r\n
REQ_DIR == << 71, 69, 84, 32, 47, 100, 32, 72, 84, 84, 80, 47, 49, 46, 49, 13, 10 >>

\* GET /d/ HTTP/1.1\r\n
REQ_DIR_SLASH == << 71, 69, 84, 32, 47, 100, 47, 32, 72, 84, 84, 80, 47, 49, 46, 49, 13, 10 >>

\* GET /n HTTP/1.1\r\n
REQ_FILE == << 71, 69, 84, 32, 47, 110, 32, 72, 84, 84, 80, 47, 49, 46, 49, 13, 10 >>

\* GET /x HTTP/1.1\r\n
REQ_MISSING == << 71, 69, 84, 32, 47, 120, 32, 72, 84, 84, 80, 47, 49, 46, 49, 13, 10 >>

\* GET /d/a%20b HTTP/1.1\r\n
REQ_SPACE == << 71, 69, 84, 32, 47, 100, 47, 97, 37, 50, 48, 98, 32, 72, 84, 84, 80, 47, 49, 46, 49, 13, 10 >>

\* GET /../d/s HTTP/1.1\r\n
REQ_DOTDOT == << 71, 69, 84, 32, 47, 46, 46, 47, 100, 47, 115, 32, 72, 84, 84, 80, 47, 49, 46, 49, 13, 10 >>

\* GET /d/../.. HTTP/1.1\r\n
REQ_UP_UP == << 71, 69, 84, 32, 47, 100, 47, 46, 46, 47, 46, 46, 32, 72, 84, 84, 80, 47, 49, 46, 49, 13, 10 >>

\* GET /%2E%2E%2Fn HTTP/1.1\r\n
REQ_ENCODED_DOTS == << 71, 69, 84, 32, 47, 37, 50, 69, 37, 50, 69, 37, 50, 70, 110, 32, 72, 84, 84, 80, 47, 49, 46, 49, 13, 10 >>

\* GET //d/s HTTP/1.1\r\n
REQ_DOUBLE_SLASH == << 71, 69, 84, 32, 47, 47, 100, 47, 115, 32, 72, 84, 84, 80, 47, 49, 46, 49, 13, 10 >>

\* GET /%2F%2F%C3%A9 HTTP/1.1\r\n
REQ_ENCODED_SLASH == << 71, 69, 84, 32, 47, 37, 50, 70, 37, 50, 70, 37, 67, 51, 37, 65, 57, 32, 72, 84, 84, 80, 47, 49, 46, 49, 13, 10 >>

\* GET %2F%2Fn HTTP/1.1\r\n
REQ_HREF == << 71, 69, 84, 32, 37, 50, 70, 37, 50, 70, 110, 32, 72, 84, 84, 80, 47, 49, 46, 49, 13, 10 >>

\* GET /%00 HTTP/1.1\r\n
REQ_NUL == << 71, 69, 84, 32, 47, 37, 48, 48, 32, 72, 84, 84, 80, 47, 49, 46, 49, 13, 10 >>

\* GET\r\n
REQ_NO_TARGET == << 71, 69, 84, 13, 10 >>

\* \r\n
REQ_BLANK == << 13, 10 >>

\* GET xn HTTP/1.1\r\n
REQ_NO_SLASH == << 71, 69, 84, 32, 120, 110, 32, 72, 84, 84, 80, 47, 49, 46, 49, 13, 10 >>

\* GET \xC3\xA9 HTTP/1.1\r\n
REQ_MULTIBYTE == << 71, 69, 84, 32, 195, 169, 32, 72, 84, 84, 80, 47, 49, 46, 49, 13, 10 >>

\* GET \xFF HTTP/1.1\r\n
REQ_INVALID_UTF8 == << 71, 69, 84, 32, 255, 32, 72, 84, 84, 80, 47, 49, 46, 49, 13, 10 >>

\* (no bytes: the peer closes without sending)
REQ_NONE == << >>

\* The byte sequences one socket read may deliver (up to 4096 bytes; the
\* empty one is a peer that closes without sending).
Requests ==
  { REQ_ROOT, REQ_DIR, REQ_DIR_SLASH, REQ_FILE, REQ_MISSING, REQ_SPACE, REQ_DOTDOT,
    REQ_UP_UP, REQ_ENCODED_DOTS, REQ_DOUBLE_SLASH, REQ_ENCODED_SLASH, REQ_HREF,
    REQ_NUL, REQ_NO_TARGET, REQ_BLANK, REQ_NO_SLASH, REQ_MULTIBYTE,
    REQ_INVALID_UTF8, REQ_NONE }

\* What the peers of the concurrent specification send.
ServerRequests == { REQ_ROOT, REQ_MULTIBYTE, REQ_NONE }

\* A local modification time.
Time(sec) == [y |-> 2024, mo |-> 3, d |-> 9, h |-> 7, mi |-> 5, s |-> sec]

Dir(sec) == [is_dir |-> TRUE, len |-> 4096, mtime |-> Time(sec)]
File(len, sec) == [is_dir |-> FALSE, len |-> len, mtime |-> Time(sec)]

\* "/" holds the directory d, the file n (2048 bytes) and the file named
\* U+00E9; d holds the directory s, the file "a b" and two files whose
\* names, the bytes FF and FE, are not UTF-8.
HomeFs ==
  (<< >> :> Dir(1)) @@ (<< <<100>> >> :> Dir(2)) @@ (<< <<110>> >> :> File(2048, 3))
  @@ (<< <<195, 169>> >> :> File(700, 4))
  @@ (<< <<100>>, <<115>> >> :> Dir(5))
  @@ (<< <<100>>, <<97, 32, 98>> >> :> File(5, 6))
  @@ (<< <<100>>, <<255>> >> :> File(1, 7))
  @@ (<< <<100>>, <<254>> >> :> File(2, 8))

\* "/" holds the file n only.
TinyFs == (<< >> :> Dir(1)) @@ (<< <<110>> >> :> File(2048, 3))

\* The number of connections the listener is offered.
MaxConn == 2

Conn == 1..MaxConn

(***************************************************************************)
(* State                                                                   *)
(***************************************************************************)

VARIABLES
  listener,   \* "listening", or "exited" once main has returned
  fs,         \* the filesystem (read only)
  peer,       \* per connection: whether a peer connects, and what it sends
  conn        \* per connection: the state of its handle_connection task

vars == << listener, fs, peer, conn >>

\* A connection slot before accept.
Fresh ==
  [pc |-> "Idle", read |-> "none", path |-> << >>, full_path |-> << >>,
   target |-> "none", faults |-> {}, stream |-> {}, returned |-> {},
   skipped |-> {},
   entries |-> << >>, sorted |-> << >>, response |-> << >>, writes |-> 0,
   sent |-> << >>, panic |-> "none"]

\* The first n peers connect and send one of reqs; the filesystem is one of fss.
InitWith(reqs, fss, n) ==
  /\ listener = "listening"
  /\ fs \in fss
  /\ peer \in [Conn -> [connects : BOOLEAN, sends : reqs \cup {<< >>}]]
  /\ \A c \in Conn : peer[c].connects = (c <= n)
  /\ \A c \in Conn : IF c <= n THEN peer[c].sends \in reqs ELSE peer[c].sends = << >>
  /\ conn = [c \in Conn |-> Fresh]

\* One client, any request, the home filesystem.
Init == InitWith(Requests, {HomeFs}, 1)

\* MaxConn clients at once.
InitServer == InitWith(ServerRequests, {TinyFs}, MaxConn)

(***************************************************************************)
(* main (lines 9-19)                                                       *)
(***************************************************************************)

\* The handler awaited in the loop instead of spawned: the next accept
\* waits until the tasks accepted before have ended.
AcceptInline(c) ==
  /\ listener = "listening"
  /\ conn[c].pc = "Idle"
  /\ peer[c].connects
  /\ \A d \in Conn : conn[d].pc \in {"Idle", "Closed", "Panicked"}
  /\ conn' = [conn EXCEPT ![c].pc = "Reading"]
  /\ UNCHANGED << listener, fs, peer >>

\* listener.accept() succeeds and the task is spawned (lines 15-17); the
\* loop does not wait for it.
Accept(c) ==
  /\ listener = "listening"
  /\ conn[c].pc = "Idle"
  /\ peer[c].connects
  /\ conn' = [conn EXCEPT ![c].pc = "Reading"]
  /\ UNCHANGED << listener, fs, peer >>

\* listener.accept() fails: `?` returns from main (line 15), the runtime
\* is dropped and the tasks still running are cancelled.
AcceptFail ==
  /\ listener = "listening"
  /\ listener' = "exited"
  /\ conn' = [c \in Conn |->
               IF conn[c].pc \in {"Idle", "Closed", "Panicked"} THEN conn[c]
               ELSE [conn[c] EXCEPT !.pc = "Cancelled"]]
  /\ UNCHANGED << fs, peer >>

(***************************************************************************)
(* handle_connection (lines 21-37)                                         *)
(***************************************************************************)

\* Ok(bytes_read) if bytes_read > 0 (lines 25-28): decode the buffer, run
\* extract_path, build full_path and start fs::metadata.
ReadData(c) ==
  /\ conn[c].pc = "Reading"
  /\ Len(peer[c].sends) > 0
  /\ LET request == from_utf8_lossy(peer[c].sends)
         ep == extract_path(request)
     IN  conn' = [conn EXCEPT ![c] =
           IF ep.panic
           THEN [@ EXCEPT !.read = "data", !.pc = "Panicked", !.panic = "slice"]
           ELSE [@ EXCEPT !.read = "data", !.path = ep.path,
                          !.full_path = full_path_of(ep.path), !.pc = "Metadata"]]
  /\ UNCHANGED << listener, fs, peer >>

\* The guard `if bytes_read > 0` dropped: an empty read is handled as a
\* request.
ReadZeroAnswered(c) ==
  /\ conn[c].pc = "Reading"
  /\ Len(peer[c].sends) = 0
  /\ LET ep == extract_path(<< >>)
     IN  conn' = [conn EXCEPT ![c].read = "zero", ![c].path = ep.path,
                              ![c].full_path = full_path_of(ep.path),
                              ![c].pc = "Metadata"]
  /\ UNCHANGED << listener, fs, peer >>

\* Ok(_) (line 34): zero bytes, the peer closed.
ReadZero(c) ==
  /\ conn[c].pc = "Reading"
  /\ Len(peer[c].sends) = 0
  /\ conn' = [conn EXCEPT ![c].read = "zero", ![c].pc = "Closed"]
  /\ UNCHANGED << listener, fs, peer >>

\* Err(e) (line 35): the read failed.
ReadErr(c) ==
  /\ conn[c].pc = "Reading"
  /\ conn' = [conn EXCEPT ![c].read = "err", ![c].pc = "Closed"]
  /\ UNCHANGED << listener, fs, peer >>

\* The match on fs::metadata (lines 56-65).  The call fails when the path
\* names nothing, and may fail (permission, I/O) when it names a node.  A
\* file goes through generate_file_info, whose modified().unwrap() (line
\* 173) panics when the time is unavailable.
Metadata(c) ==
  /\ conn[c].pc = "Metadata"
  /\ LET found == Lookup(fs, conn[c].full_path)
     IN  \E ok \in BOOLEAN, mtime_ok \in BOOLEAN :
           conn' = [conn EXCEPT ![c] =
             IF found = << >> \/ ~ok
             THEN [@ EXCEPT !.target = "Missing",
                            !.faults = IF found = << >> THEN @ ELSE @ \cup {"metadata"},
                            !.response = frame(generate_error_page),
                            !.pc = "Writing"]
             ELSE IF fs[found[1]].is_dir
             THEN [@ EXCEPT !.target = "Directory", !.pc = "ReadDir"]
             ELSE IF ~mtime_ok
             THEN [@ EXCEPT !.target = "File", !.faults = @ \cup {"file_modified"},
                            !.pc = "Panicked", !.panic = "file_modified"]
             ELSE [@ EXCEPT !.target = "File",
                            !.response = frame(file_info_html(conn[c].full_path,
                                                 fs[found[1]].len, fs[found[1]].mtime)),
                            !.pc = "Writing"]]
  /\ UNCHANGED << listener, fs, peer >>

\* fs::read_dir(path).await.unwrap() (line 80): a directory that cannot be
\* opened panics the task.
ReadDir(c) ==
  /\ conn[c].pc = "ReadDir"
  /\ \E ok \in BOOLEAN :
       conn' = [conn EXCEPT ![c] =
         IF ok
         THEN [@ EXCEPT !.stream = ChildNames(fs, Lookup(fs, conn[c].full_path)[1]),
                        !.pc = "Entries"]
         ELSE [@ EXCEPT !.faults = @ \cup {"read_dir"},
                        !.pc = "Panicked", !.panic = "read_dir"]]
  /\ UNCHANGED << listener, fs, peer >>

\* One turn of the while-let loop (lines 82-90): next_entry returns some
\* entry of the stream, in any order; its metadata may fail (the entry is
\* skipped) and modified().unwrap() (line 86) panics when the time is
\* unavailable.
NextEntry(c) ==
  /\ conn[c].pc = "Entries"
  /\ \E name \in conn[c].stream, outcome \in {"ok", "metadata_err", "no_mtime"} :
       LET node == fs[Append(Lookup(fs, conn[c].full_path)[1], name)]
           took == [conn[c] EXCEPT !.stream = @ \ {name},
                                   !.returned = @ \cup {name}]
       IN  conn' = [conn EXCEPT ![c] =
             CASE outcome = "ok" ->
                    [took EXCEPT !.entries = Append(@, entry_tuple(name, node))]
               [] outcome = "metadata_err" ->
                    [took EXCEPT !.faults = @ \cup {"entry_metadata"},
                                 !.skipped = @ \cup {name}]
               [] outcome = "no_mtime" ->
                    [took EXCEPT !.faults = @ \cup {"entry_modified"},
                                 !.pc = "Panicked", !.panic = "entry_modified"]]
  /\ UNCHANGED << listener, fs, peer >>

\* The loop ends (line 82): next_entry returned Ok(None) at the end of the
\* stream, or Err at any point.  The entries are sorted, the listing is
\* rendered and framed.
EndEntries(c) ==
  /\ conn[c].pc = "Entries"
  /\ \E err \in BOOLEAN :
       /\ err \/ conn[c].stream = {}
       /\ LET sorted == sort_by(conn[c].entries)
          IN  conn' = [conn EXCEPT ![c] =
                [@ EXCEPT !.faults = IF err THEN @ \cup {"next_entry"} ELSE @,
                          !.sorted = sorted,
                          !.response = frame(listing_html(conn[c].full_path, sorted)),
                          !.pc = "Writing"]]
  /\ UNCHANGED << listener, fs, peer >>

\* socket.write_all(response.as_bytes()) succeeds (line 30).
WriteOk(c) ==
  /\ conn[c].pc = "Writing"
  /\ conn' = [conn EXCEPT ![c].writes = @ + 1,
                          ![c].sent = as_bytes(conn[c].response),
                          ![c].pc = "Closed"]
  /\ UNCHANGED << listener, fs, peer >>

\* socket.write_all fails (lines 30-32): logged, the task ends.
WriteErr(c) ==
  /\ conn[c].pc = "Writing"
  /\ conn' = [conn EXCEPT ![c].writes = @ + 1, ![c].pc = "Closed"]
  /\ UNCHANGED << listener, fs, peer >>

\* A step of connection c's task.
Task(c) ==
  \/ ReadData(c) \/ ReadZero(c) \/ ReadErr(c)
  \/ Metadata(c) \/ ReadDir(c) \/ NextEntry(c) \/ EndEntries(c)
  \/ WriteOk(c) \/ WriteErr(c)

Next ==
  \/ \E c \in Conn : Accept(c)
  \/ AcceptFail
  \/ \E c \in Conn : Task(c)

Spec == Init /\ [][Next]_vars

SpecServer == InitServer /\ [][Next]_vars

(***************************************************************************)
(* Reading a response back, as a client does                               *)
(***************************************************************************)

\* The least element of a non-empty set of naturals.
Min(S) == CHOOSE i \in S : \A j \in S : i <= j

\* The position of the first byte after the first blank line of w, or 0.
BodyStart(w) ==
  LET ends == Occurrences(w, << 13, 10, 13, 10 >>)
  IN  IF ends = {} THEN 0 ELSE Min(ends) + 4

\* What follows the blank line.
BodyOf(w) == SubSeq(w, BodyStart(w), Len(w))

RECURSIVE ParseNat(_, _, _)
\* The number written in decimal digits from position i of w on.
ParseNat(w, i, acc) ==
  IF i > Len(w) \/ w[i] < 48 \/ w[i] > 57 THEN acc
  ELSE ParseNat(w, i + 1, 10 * acc + (w[i] - 48))

\* The value of the Content-Length header of w, or -1 without one.
ContentLengthOf(w) ==
  LET at == Occurrences(SubSeq(w, 1, BodyStart(w) - 1), CONTENT_LENGTH)
  IN  IF at = {} THEN -1 ELSE ParseNat(w, Min(at) + Len(CONTENT_LENGTH), 0)

\* The connections whose response has been framed.
Responded == { c \in Conn : conn[c].response # << >> }

(***************************************************************************)
(* C1                                                                      *)
(***************************************************************************)

\* C1: in every response generate_response produces (listing, file detail
\* or not-found document) the number in the Content-Length header equals
\* the number of encoded bytes that follow the blank line, and the bytes
\* written to the socket are those of the response.
C1_ContentLengthIsByteLength ==
  \A c \in Responded :
    LET wire == as_bytes(conn[c].response)
    IN  /\ BodyStart(wire) > 0
        /\ ContentLengthOf(wire) = Len(wire) - BodyStart(wire) + 1
        /\ conn[c].sent # << >> => conn[c].sent = wire

\* A response whose body holds multi-byte glyphs (more bytes than chars)
\* has been written.
C1_Witness ==
  \E c \in Conn :
    /\ conn[c].pc = "Closed"
    /\ conn[c].sent # << >>
    /\ Len(BodyOf(conn[c].sent)) > Len(BodyOf(conn[c].response))

(***************************************************************************)
(* C2                                                                      *)
(***************************************************************************)

RECURSIVE Resolve(_, _)
\* Where the kernel ends up from node cur along comps, whether or not the
\* names exist: "" and "." stay, ".." goes up (not above "/"), a name goes
\* down.
Resolve(comps, cur) ==
  IF comps = << >> THEN cur
  ELSE LET c == Head(comps)
       IN  IF Skipped(c) THEN Resolve(Tail(comps), cur)
           ELSE IF c = << 46, 46 >>
             THEN Resolve(Tail(comps),
                          IF cur = << >> THEN cur ELSE SubSeq(cur, 1, Len(cur) - 1))
           ELSE Resolve(Tail(comps), Append(cur, c))

\* The node a rooted path resolves to.
ResolvedNode(p) == Resolve(SplitPath(p), << >>)

\* Is node the root directory of the server or below it?
UnderRoot(node) ==
  LET r == ResolvedNode(root_path)
  IN  Len(node) >= Len(r) /\ SubSeq(node, 1, Len(r)) = r

\* C2: the path handed to the filesystem is rooted (never relative to the
\* working directory) and resolves to the server root or to a descendant
\* of it, whatever the request target decodes to: ".." segments, encoded
\* separators, a remainder that is itself absolute.
C2_ResolutionStaysUnderRoot ==
  \A c \in Conn :
    conn[c].full_path # << >> =>
      /\ has_root(conn[c].full_path)
      /\ UnderRoot(ResolvedNode(conn[c].full_path))

\* The filesystem has been asked about a path that holds a ".." segment,
\* decoded from the request.
C2_Witness ==
  \E c \in Conn :
    /\ conn[c].target # "none"
    /\ \E i \in 1..Len(SplitPath(conn[c].full_path)) :
         SplitPath(conn[c].full_path)[i] = << 46, 46 >>

(***************************************************************************)
(* C7                                                                      *)
(***************************************************************************)

\* C7: a connection whose read returned zero bytes or failed is closed at
\* once: nothing was decoded, resolved or rendered for it and no write to
\* its socket is attempted.
C7_NoResponseWithoutRequest ==
  \A c \in Conn :
    conn[c].read \in {"zero", "err"} =>
      /\ conn[c].pc = "Closed"
      /\ conn[c].writes = 0
      /\ conn[c].sent = << >>
      /\ conn[c].response = << >>
      /\ conn[c].path = << >> /\ conn[c].full_path = << >>
      /\ conn[c].target = "none"

\* One connection was closed by its peer before sending and another
\* failed in its read.
C7_Witness ==
  \E c, d \in Conn :
    /\ conn[c].read = "zero" /\ conn[c].pc = "Closed"
    /\ conn[d].read = "err" /\ conn[d].pc = "Closed"

(***************************************************************************)
(* C8                                                                      *)
(***************************************************************************)

\* Does t start with s?
StartsWith(t, s) == MatchAt(t, 1, s)

\* C8: every response starts with the status line "HTTP/1.1 200 OK",
\* whatever the classification, and a path that names nothing under the
\* root, or whose metadata cannot be read, is answered with the fixed
\* not-found document.
C8_NotFoundIsA200Document ==
  \A c \in Responded :
    /\ StartsWith(conn[c].response,
                  << 72, 84, 84, 80, 47, 49, 46, 49, 32, 50, 48, 48, 32, 79, 75, 13, 10 >>)
    /\ (Lookup(fs, conn[c].full_path) = << >> \/ "metadata" \in conn[c].faults) =>
         /\ conn[c].target = "Missing"
         /\ BodyOf(conn[c].response) = generate_error_page

\* The not-found document has been written for a path that does not exist.
C8_Witness ==
  \E c \in Conn :
    /\ conn[c].pc = "Closed" /\ conn[c].sent # << >>
    /\ Lookup(fs, conn[c].full_path) = << >>
    /\ BodyOf(conn[c].response) = generate_error_page

(***************************************************************************)
(* C3                                                                      *)
(***************************************************************************)

\* The directory node connection c lists.
DirNode(c) == Lookup(fs, conn[c].full_path)[1]

\* C3: whatever the filesystem operations return, a connection that read a
\* request (and got past the path decoder) never panics; it ends with a
\* framed document, and a listing whose enumeration did not fail shows
\* every entry the stream returned but those whose metadata was
\* unavailable.
C3_NoFilesystemFailurePanics ==
  \A c \in Conn :
    (conn[c].read = "data" /\ conn[c].panic # "slice") =>
      /\ conn[c].pc # "Panicked"
      /\ conn[c].pc \in {"Writing", "Closed"} => conn[c].response # << >>
      /\ "read_dir" \in conn[c].faults =>
           (conn[c].response # << >> =>
              BodyOf(conn[c].response) = generate_error_page)
      /\ (conn[c].pc \in {"Writing", "Closed"} /\ conn[c].target = "Directory"
          /\ conn[c].faults \subseteq {"entry_metadata"}) =>
           /\ conn[c].stream = {}
           /\ Len(conn[c].sorted) = Cardinality(conn[c].returned \ conn[c].skipped)

(***************************************************************************)
(* C4                                                                      *)
(***************************************************************************)

\* Has the request no target that begins with "/": no second token, or one
\* whose first char is another one?
Malformed(request) ==
  LET l == lines_next(request)
      t == IF l = << >> THEN << >> ELSE split_whitespace_nth1(l[1])
  IN  t = << >> \/ t[1][1] # 47

\* C4: a connection that read a non-empty request always gets a path from
\* extract_path, and a malformed request line gets the path "/".
C4_MalformedRequestIsRoot ==
  \A c \in Conn :
    conn[c].read = "data" =>
      /\ conn[c].panic # "slice"
      /\ conn[c].path # << >>
      /\ Malformed(from_utf8_lossy(peer[c].sends)) => conn[c].path = << 47 >>

(***************************************************************************)
(* C5                                                                      *)
(***************************************************************************)

\* The connections whose response is a directory listing.
Listed == { c \in Responded : conn[c].target = "Directory" }

\* The text of s from position i up to the next double quote.
UpToQuote(s, i) == SubSeq(s, i, IndexFrom(s, i, 34) - 1)

\* C5: the listing of the root directory holds no parent-navigation row;
\* the listing of any other directory holds exactly one, it is the first
\* row of the table, and its link resolves to the parent of the directory.
C5_ParentRowOnlyBelowRoot ==
  \A c \in Listed :
    LET body == BodyOf(conn[c].response)
        up == Occurrences(body, PARENT_CLOSE)
        rows == Occurrences(body, ROW_OPEN)
        first == Min(rows)
        href == UpToQuote(body, first + Len(PARENT_OPEN))
    IN  IF DirNode(c) = << >> THEN up = {}
        ELSE /\ Cardinality(up) = 1
             /\ MatchAt(body, first, PARENT_OPEN \o href \o PARENT_CLOSE)
             /\ Lookup(fs, as_bytes(href))
                  = << SubSeq(DirNode(c), 1, Len(DirNode(c)) - 1) >>

(***************************************************************************)
(* C6                                                                      *)
(***************************************************************************)

\* The sequences that hold the elements of seq in another order.
Reorderings(seq) ==
  { [i \in 1..Len(seq) |-> seq[f[i]]] :
      f \in { g \in [1..Len(seq) -> 1..Len(seq)] :
                \A i, j \in 1..Len(seq) : i # j => g[i] # g[j] } }

\* C6: the rows of a listing have every directory before every file and,
\* within each group, names in ascending order; the order is the same for
\* every order in which the filesystem may have enumerated the entries.
C6_ListingOrderIsTotal ==
  \A c \in Listed :
    LET rows == conn[c].sorted
    IN  /\ \A i, j \in 1..Len(rows) :
             i < j => /\ rows[j][2] => rows[i][2]
                      /\ rows[i][2] = rows[j][2] => str_cmp(rows[i][1], rows[j][1]) <= 0
        /\ \A other \in Reorderings(conn[c].entries) : sort_by(other) = rows

(***************************************************************************)
(* C10                                                                     *)
(***************************************************************************)

\* The request a client sends for target t: "GET t HTTP/1.1\r\n\r\n".
RequestFor(t) ==
  << 71, 69, 84, 32 >> \o t \o << 32, 72, 84, 84, 80, 47, 49, 46, 49, 13, 10, 13, 10 >>

\* C10: for every entry E a listing of directory D shows, the link target
\* rendered for E, sent back as the target of a request line, gets a path
\* from extract_path and generate_response that names E (D joined with
\* the name of E).
C10_ListingLinksRoundTrip ==
  \A c \in Listed :
    \A raw \in conn[c].returned \ conn[c].skipped :
      LET link == encoded_path(from_utf8_lossy(conn[c].full_path),
                               from_utf8_lossy(raw))
          ep == extract_path(RequestFor(link))
      IN  /\ Occurrences(BodyOf(conn[c].response),
                         ROW_OPEN \o link \o ROW_HREF_END) # {}
          /\ ~ep.panic
          /\ Lookup(fs, full_path_of(ep.path)) = << Append(DirNode(c), raw) >>

(***************************************************************************)
(* C9                                                                      *)
(***************************************************************************)

\* The response connection c gets from its own request and the outcomes
\* of its own filesystem calls alone.
ResponseAlone(c) ==
  LET full == full_path_of(extract_path(from_utf8_lossy(peer[c].sends)).path)
      node == fs[Lookup(fs, full)[1]]
  IN  frame(CASE conn[c].target = "Missing" -> generate_error_page
              [] conn[c].target = "File" -> file_info_html(full, node.len, node.mtime)
              [] OTHER -> listing_html(full, sort_by(conn[c].entries)))

\* No other connection stands in the way of the listener or of a
\* response: while the listener runs, a peer that connects can be accepted
\* whatever state the other connections are in (stalled in a read, failed,
\* closed, panicked), and a response is the one the connection would get
\* alone.
Unhindered ==
  \A c \in Conn :
    /\ (listener = "listening" /\ conn[c].pc = "Idle" /\ peer[c].connects)
         => ENABLED Accept(c)
    /\ c \in Responded => conn[c].response = ResponseAlone(c)
    /\ conn[c].sent # << >> => conn[c].sent = as_bytes(conn[c].response)

\* A step of one connection leaves every other connection as it was.
StepIsLocal ==
  listener' = "listening" =>
    \A c, d \in Conn : (c # d /\ conn'[c] # conn[c]) => conn'[d] = conn[d]

\* C9: connections are isolated from each other and from the listener:
\* with other connections stalled in their read, failed or closed, the
\* listener can still accept the next connection, a step of one
\* connection changes no other connection, and each response is the one
\* the connection would get alone.
C9_ConnectionsAreIsolated == []Unhindered /\ [][StepIsLocal]_vars

\* One connection is still waiting in its read while another, with the
\* first one stalled, has been answered in full and closed.
C9_Witness ==
  \E c, d \in Conn :
    /\ conn[c].pc = "Reading"
    /\ conn[d].pc = "Closed" /\ conn[d].sent # << >>
    /\ conn[d].sent = as_bytes(conn[d].response)

====
